---------------------------- MODULE Spec2Model ----------------------------
(***************************************************************************)
(* The CoLA and DONE detectors of pygod (src/pygod/detector/cola.py and    *)
(* src/pygod/detector/done.py) as a state machine.                         *)
(*                                                                         *)
(* One detector object `det` is constructed (Init), then driven by the     *)
(* inherited training loop `fit`, which calls the hooks init_model and     *)
(* forward_model of the detector's class once per step, and by DONE's own  *)
(* decision_function.  `pc` is the position of the running call.           *)
(*                                                                         *)
(* Conventions.  A tensor of length L is a sequence of length L, so that   *)
(* position i of the Python tensor is index i+1 here and global node id v  *)
(* is v+1.  A value that may be None is <<>> (None) or <<v>> (Some(v)).    *)
(* The network (DONEBase/CoLABase) is outside the two source files: its    *)
(* outputs are a function of its parameters and of the row, the parameters *)
(* being drawn at random when the network is built and changed by every    *)
(* optimizer step.                                                         *)
(***************************************************************************)
EXTENDS Integers, Sequences, FiniteSets, TLC

VARIABLES
    det,      \* the detector object: a record of its attributes
    twin,     \* a second DONE detector (used by SpecBackbone only)
    pc,       \* position of the running call: "idle" when none runs
    frame,    \* the running call: the public method, its data, loop indices
    batch,    \* the sampled batch the training loop currently holds
    ret,      \* what the last hook or public method returned (None: nothing)
    op,       \* the operation that took the last step
    arg,      \* the data argument of the last public call
    warned,   \* whether the last step emitted a warning
    exc,      \* whether the last step raised an exception
    network,  \* the network object init_model built last: its parameters, emb
    is_train_arg, \* the is_train argument of the last forward_model call
    log,      \* history: forward_model calls since the last init_model
    fitted,   \* history: a fit ran to completion inside the last public call
    again,    \* history: that call was given the graph of a completed fit
    directs   \* history: forward_model calls made outside fit since then

vars == <<det, twin, pc, frame, batch, ret, op, arg, warned, exc, network,
          is_train_arg,
          log, fitted, again, directs>>

(***************************************************************************)
(* Bounds of the model.                                                    *)
(***************************************************************************)
MaxNodes == 2     \* graphs have 1 .. MaxNodes nodes
MaxEpoch == 2     \* the epoch hyperparameter is 1 .. MaxEpoch
MaxBatch == 1     \* the batch_size hyperparameter is 0 .. MaxBatch
MaxDirect == 1    \* forward_model calls made outside fit, per init_model

None == <<>>
Some(v) == <<v>>

Min(a, b) == IF a < b THEN a ELSE b

(***************************************************************************)
(* Tensor operations used by the two files.                                *)
(***************************************************************************)
\* torch.zeros(n)
Zeros(n) == [i \in 1..n |-> 0]

\* torch.zeros(n, d)
Zeros2(n, d) == [i \in 1..n |-> [c \in 1..d |-> 0]]

\* torch.ones(n)
Ones(n) == [i \in 1..n |-> 1]

\* t[:k]
Take(t, k) == SubSeq(t, 1, Min(k, Len(t)))

\* t[mask] for a boolean mask of the length of t: the selected entries in order
RECURSIVE MaskSelect(_, _)
MaskSelect(t, mask) ==
    IF t = <<>> THEN <<>>
    ELSE (IF Head(mask) THEN <<Head(t)>> ELSE <<>>) \o MaskSelect(Tail(t), Tail(mask))

\* whether t[idx] = v is accepted: v has one entry per index, or broadcasts
CanPut(idx, v) == Len(v) = Len(idx) \/ Len(v) = 1

\* t[idx] += v: the values are added to the entries at idx
IndexAdd(t, idx, v) ==
    [n \in 1..Len(t) |->
        IF \E i \in 1..Len(idx) : idx[i] = n
        THEN t[n] + (LET i == CHOOSE i \in 1..Len(idx) : idx[i] = n
                     IN IF Len(v) = 1 THEN v[1] ELSE v[i])
        ELSE t[n]]

\* t[idx] = v for a tensor idx of distinct indices: the entries at idx are
\* overwritten, every other entry is kept
IndexPut(t, idx, v) ==
    [n \in 1..Len(t) |->
        IF \E i \in 1..Len(idx) : idx[i] = n
        THEN LET i == CHOOSE i \in 1..Len(idx) : idx[i] = n
             IN IF Len(v) = 1 THEN v[1] ELSE v[i]
        ELSE t[n]]

(***************************************************************************)
(* Construction.                                                           *)
(***************************************************************************)
\* the keyword defaults of DONE.__init__
DONE_defaults ==
    [hid_dim |-> 64, num_layers |-> 4, dropout |-> "0.", weight_decay |-> "0.",
     act |-> "relu", backbone |-> None, w1 |-> "0.2", w2 |-> "0.2",
     w3 |-> "0.2", w4 |-> "0.2", w5 |-> "0.2", contamination |-> "0.1",
     lr |-> "4e-3", epoch |-> 100, gpu |-> -1, batch_size |-> 0,
     num_neigh |-> -1, verbose |-> 0, save_emb |-> FALSE,
     compile_model |-> FALSE]

\* the keyword defaults of CoLA.__init__
CoLA_defaults ==
    [hid_dim |-> 64, num_layers |-> 4, dropout |-> "0.", weight_decay |-> "0.",
     act |-> "relu", backbone |-> Some("GCN"), contamination |-> "0.1",
     lr |-> "4e-3", epoch |-> 100, gpu |-> -1, batch_size |-> 0,
     num_neigh |-> -1, verbose |-> 0, save_emb |-> FALSE,
     compile_model |-> FALSE]

\* DeepDetector.__init__ (inherited, not in the two files): every keyword is
\* stored under its name, backbone defaults to None, num_neigh becomes one
\* fanout per layer, and the post-fit outputs start as None
DeepDetector_init(cls, kw) ==
    [cls |-> cls,
     hid_dim |-> kw.hid_dim, num_layers |-> kw.num_layers,
     dropout |-> kw.dropout, weight_decay |-> kw.weight_decay,
     act |-> kw.act,
     backbone |-> IF "backbone" \in DOMAIN kw THEN kw.backbone ELSE None,
     contamination |-> kw.contamination, lr |-> kw.lr, epoch |-> kw.epoch,
     gpu |-> kw.gpu, batch_size |-> kw.batch_size,
     num_neigh |-> [l \in 1..kw.num_layers |-> kw.num_neigh],
     verbose |-> kw.verbose, save_emb |-> kw.save_emb,
     compile_model |-> kw.compile_model,
     num_nodes |-> None, in_dim |-> None, model |-> None, emb |-> None,
     decision_score_ |-> None]

\* DONE_super_kwargs with a fault: backbone is handed on to the base class
DONE_super_kwargs_backbone(a) ==
    [hid_dim |-> a.hid_dim, num_layers |-> 1, dropout |-> a.dropout,
     weight_decay |-> a.weight_decay, act |-> a.act, backbone |-> a.backbone,
     contamination |-> a.contamination, lr |-> a.lr, epoch |-> a.epoch,
     gpu |-> a.gpu, batch_size |-> a.batch_size, num_neigh |-> a.num_neigh,
     verbose |-> a.verbose, save_emb |-> a.save_emb,
     compile_model |-> a.compile_model]

\* the keywords DONE.__init__ hands to super().__init__: num_layers is 1 and
\* backbone is not among them
DONE_super_kwargs(a) ==
    [hid_dim |-> a.hid_dim, num_layers |-> 1, dropout |-> a.dropout,
     weight_decay |-> a.weight_decay, act |-> a.act,
     contamination |-> a.contamination, lr |-> a.lr, epoch |-> a.epoch,
     gpu |-> a.gpu, batch_size |-> a.batch_size, num_neigh |-> a.num_neigh,
     verbose |-> a.verbose, save_emb |-> a.save_emb,
     compile_model |-> a.compile_model]

\* DONE.__init__: the object after construction and whether it warned
DONE_init(a) ==
    LET base == DeepDetector_init("DONE", DONE_super_kwargs(a))
        own == [w1 |-> a.w1, w2 |-> a.w2, w3 |-> a.w3, w4 |-> a.w4,
                w5 |-> a.w5, num_layers |-> a.num_layers,
                attribute_score_ |-> None, structural_score_ |-> None,
                combined_score_ |-> None]
    IN [self |-> [f \in DOMAIN base \cup DOMAIN own |->
                      IF f \in DOMAIN own THEN own[f] ELSE base[f]],
        warned |-> a.backbone # None]

\* CoLA.__init__: every keyword, backbone included, goes to the base class
CoLA_init(a) ==
    [self |-> DeepDetector_init("CoLA",
                  [hid_dim |-> a.hid_dim, num_layers |-> a.num_layers,
                   dropout |-> a.dropout, weight_decay |-> a.weight_decay,
                   act |-> a.act, backbone |-> a.backbone,
                   contamination |-> a.contamination, lr |-> a.lr,
                   epoch |-> a.epoch, gpu |-> a.gpu,
                   batch_size |-> a.batch_size, num_neigh |-> a.num_neigh,
                   verbose |-> a.verbose, save_emb |-> a.save_emb,
                   compile_model |-> a.compile_model]),
     warned |-> FALSE]

(***************************************************************************)
(* Graphs and the sampler (torch_geometric's NeighborLoader, outside the   *)
(* two files).  A graph has n nodes, on a path 1 - 2 - ... - n when        *)
(* linked, and may carry a node-level boolean attribute active_mask.       *)
(***************************************************************************)
Masks(n) == {None} \cup {Some(m) : m \in [1..n -> BOOLEAN]}

\* the graphs handed to fit and decision_function; s tells whether the
\* structural similarity vectors have been attached by process_graph
Graphs ==
    UNION {{[n |-> n, linked |-> l, active_mask |-> m, in_dim |-> 3, s |-> FALSE] :
               l \in (IF n = 1 THEN {FALSE} ELSE BOOLEAN), m \in Masks(n)} :
           n \in 1..MaxNodes}

\* the elements of a set of integers in ascending order
Ascending(S) ==
    [i \in 1..Cardinality(S) |->
        CHOOSE v \in S : Cardinality({u \in S : u < v}) = i - 1]

Dist(u, v) == IF u < v THEN v - u ELSE u - v

\* the number of batches of a loader over n nodes with batch size bs
NumBatches(n, bs) == (n + bs - 1) \div bs

\* NeighborLoader(data, num_neigh, batch_size)[k]: the seeds are the next
\* batch_size nodes, followed by the other nodes within one hop per fanout,
\* and node-level attributes are sliced by n_id
Loader(data, num_neigh, bs, k) ==
    LET lo == (k - 1) * bs + 1
        hi == Min(k * bs, data.n)
        seeds == [i \in 1..(hi - lo + 1) |-> lo + i - 1]
        near == {v \in 1..data.n :
                    /\ data.linked
                    /\ v < lo \/ v > hi
                    /\ \E u \in lo..hi : Dist(u, v) <= Len(num_neigh)}
        n_id == seeds \o Ascending(near)
    IN [n_id |-> n_id, batch_size |-> Len(seeds), s |-> data.s,
        active_mask |-> IF data.active_mask = None THEN None
                        ELSE Some([j \in 1..Len(n_id) |-> data.active_mask[1][n_id[j]]])]

(***************************************************************************)
(* The networks (pygod.nn.DONEBase and CoLABase, outside the two files).   *)
(* Row j of a batch is its j-th sampled node.  With parameters w the       *)
(* outputs for row j are the values below: distinct per row and per        *)
(* output, with oa + os + oc a multiple of three so that the float         *)
(* division by 3 is exact.                                                 *)
(***************************************************************************)
Weights == {0, 1}

\* optimizer.step(): the parameters move on
OptimizerStep(w) == (w + 1) % Cardinality(Weights)

Oa(w, j) == w + j - 1
Os(w, j) == 2 * w + j
Oc(w, j) == 3 * w + j + 1

\* DONEBase.forward leaves model.emb = (h_a, h_s), one row per sampled node
DONEBase_emb(w, L, hid) ==
    <<[j \in 1..L |-> [c \in 1..hid |-> w + j]],
      [j \in 1..L |-> [c \in 1..hid |-> w + 2 * j + 1]]>>

\* DONEBase.loss_func on the given rows: the loss and one oa, os, oc per row
DONEBase_loss_func(rows, w) ==
    [loss |-> [fn |-> "DONEBase.loss_func", rows |-> rows, w |-> w],
     oa |-> [k \in 1..Len(rows) |-> Oa(w, rows[k])],
     os |-> [k \in 1..Len(rows) |-> Os(w, rows[k])],
     oc |-> [k \in 1..Len(rows) |-> Oc(w, rows[k])]]

Pos(w, j) == w + 2 * (j - 1)
Neg(w, j) == 3 * j - w

\* CoLABase.forward: one positive and one negative logit per sampled node
CoLABase_forward(w, L) ==
    [pos_logits |-> [j \in 1..L |-> Pos(w, j)],
     neg_logits |-> [j \in 1..L |-> Neg(w, j)]]

\* CoLABase.forward sets model.emb, one row per sampled node
CoLABase_emb(w, L, hid) == [j \in 1..L |-> [c \in 1..hid |-> w + j]]

\* CoLABase.loss_func(logits, con_label): the loss as a term over its inputs
CoLABase_loss_func(logits, con_label) ==
    [fn |-> "CoLABase.loss_func", logits |-> logits, con_label |-> con_label]

(***************************************************************************)
(* The hooks of DONE.                                                      *)
(***************************************************************************)
\* DONE.process_graph: DONEBase.process_graph attaches data.s
DONE_process_graph(data) == [data EXCEPT !.s = TRUE]

\* the model DONE.init_model returns: the arguments DONEBase is built with
DONE_model(self) ==
    [name |-> "DONEBase", x_dim |-> self.in_dim[1], s_dim |-> self.num_nodes[1],
     hid_dim |-> self.hid_dim, num_layers |-> self.num_layers,
     dropout |-> self.dropout, act |-> self.act,
     w1 |-> self.w1, w2 |-> self.w2, w3 |-> self.w3, w4 |-> self.w4,
     w5 |-> self.w5]

\* DONE_init_model with a fault: emb is allocated whatever save_emb says
DONE_init_model_emb(self) ==
    LET n == self.num_nodes[1]
    IN [self |-> [self EXCEPT !.attribute_score_ = Some(Zeros(n)),
                              !.structural_score_ = Some(Zeros(n)),
                              !.combined_score_ = Some(Zeros(n)),
                              !.emb = Some(<<Zeros2(n, self.hid_dim),
                                             Zeros2(n, self.hid_dim)>>)],
        ret |-> DONE_model(self)]

\* DONE.init_model: the three score arrays are zeroed, emb is allocated as a
\* pair of zero matrices when save_emb, and the model is returned
DONE_init_model(self) ==
    LET n == self.num_nodes[1]
        zeroed == [self EXCEPT !.attribute_score_ = Some(Zeros(n)),
                               !.structural_score_ = Some(Zeros(n)),
                               !.combined_score_ = Some(Zeros(n))]
    IN [self |-> IF self.save_emb
                 THEN [zeroed EXCEPT !.emb = Some(<<Zeros2(n, self.hid_dim),
                                                    Zeros2(n, self.hid_dim)>>)]
                 ELSE zeroed,
        ret |-> DONE_model(self)]

\* StoreScore with a fault: the batch's scores are added to the running entries
StoreScoreAdd(t, idx, v) == IndexAdd(t, idx, v)

\* self.<which>_score_[node_idx[:batch_size]] = o.detach().cpu()
StoreScore(t, idx, v) == IndexPut(t, idx, v)

\* SeedIndex with a fault: the whole of n_id
SeedIndexAll(data) == data.n_id

\* node_idx[:batch_size]: the global ids of the seed nodes
SeedIndex(data) == Take(data.n_id, data.batch_size)

\* OverallScore with a fault: the sum is not divided
OverallScoreSum(oa, os, oc) ==
    [k \in 1..Len(oa) |-> oa[k] + os[k] + oc[k]]

\* (oa + os + oc) / 3, elementwise
OverallScore(oa, os, oc) ==
    [k \in 1..Len(oa) |-> (oa[k] + os[k] + oc[k]) \div 3]

\* the rows DONE.forward_model hands to loss_func: x[:batch_size], indexed by
\* active_mask when the batch has that key; None when the mask does not have
\* batch_size entries (IndexError)
DONE_scored_rows(data) ==
    LET x == [j \in 1..Len(data.n_id) |-> j]
        seeds == Take(x, data.batch_size)
    IN IF data.active_mask = None THEN Some(seeds)
       ELSE IF Len(data.active_mask[1]) # Len(seeds) THEN None
       ELSE Some(MaskSelect(seeds, data.active_mask[1]))

\* DONE.forward_model: the network runs, loss_func scores the rows, the three
\* arrays take the scores at the seed ids, and (loss, mean score) is returned.
\* An assignment whose value tensor does not fit raises before anything is
\* written.  model_emb is what the network object holds afterwards
DONE_forward_model(self, data, is_train, w) ==
    LET h == Some(DONEBase_emb(w, Len(data.n_id), self.hid_dim))
        rows == DONE_scored_rows(data)
        out == DONEBase_loss_func(rows[1], w)
        idx == SeedIndex(data)
    IN IF rows = None \/ ~CanPut(idx, out.oa)
       THEN [self |-> self, model_emb |-> h, raised |-> TRUE, ret |-> None]
       ELSE [self |-> [self EXCEPT
                         !.attribute_score_ = Some(StoreScore(@[1], idx, out.oa)),
                         !.structural_score_ = Some(StoreScore(@[1], idx, out.os)),
                         !.combined_score_ = Some(StoreScore(@[1], idx, out.oc))],
             model_emb |-> h, raised |-> FALSE,
             ret |-> Some([loss |-> out.loss,
                           score |-> OverallScore(out.oa, out.os, out.oc)])]

(***************************************************************************)
(* The hooks of CoLA.                                                      *)
(***************************************************************************)
\* CoLA.process_graph: pass
CoLA_process_graph(data) == data

\* CoLA.init_model: emb is allocated as one zero matrix when save_emb, and
\* the model is returned
CoLA_init_model(self) ==
    [self |-> IF self.save_emb
              THEN [self EXCEPT !.emb = Some(Zeros2(self.num_nodes[1], self.hid_dim))]
              ELSE self,
     ret |-> [name |-> "CoLABase", in_dim |-> self.in_dim[1],
              hid_dim |-> self.hid_dim, num_layers |-> self.num_layers,
              dropout |-> self.dropout, act |-> self.act,
              backbone |-> self.backbone]]

\* CoLA_score with a fault: the difference is taken the other way round
CoLA_score_swapped(pos_logits, neg_logits, batch_size) ==
    [i \in 1..Min(batch_size, Min(Len(pos_logits), Len(neg_logits))) |->
        pos_logits[i] - neg_logits[i]]

\* neg_logits[:batch_size] - pos_logits[:batch_size]
CoLA_score(pos_logits, neg_logits, batch_size) ==
    [i \in 1..Min(batch_size, Min(Len(pos_logits), Len(neg_logits))) |->
        Take(neg_logits, batch_size)[i] - Take(pos_logits, batch_size)[i]]

\* CoLA.forward_model: the network runs, the first batch_size positive and
\* negative logits are concatenated and labelled 1 and 0 for the loss, and
\* (loss, neg - pos) is returned; no attribute of the detector is assigned
CoLA_forward_model(self, data, is_train, w) ==
    LET batch_size == data.batch_size
        h == Some(CoLABase_emb(w, Len(data.n_id), self.hid_dim))
        net == CoLABase_forward(w, Len(data.n_id))
        logits == Take(net.pos_logits, batch_size) \o Take(net.neg_logits, batch_size)
        con_label == Ones(batch_size) \o Zeros(batch_size)
        loss == CoLABase_loss_func(logits, con_label)
        score == CoLA_score(net.pos_logits, net.neg_logits, batch_size)
    IN [self |-> self, model_emb |-> h, raised |-> FALSE,
        ret |-> Some([loss |-> loss, score |-> score])]

(***************************************************************************)
(* Dispatch on the detector's class.                                       *)
(***************************************************************************)
process_graph(self, data) ==
    IF self.cls = "DONE" THEN DONE_process_graph(data) ELSE CoLA_process_graph(data)

init_model(self) ==
    IF self.cls = "DONE" THEN DONE_init_model(self) ELSE CoLA_init_model(self)

forward_model(self, data, is_train, w) ==
    IF self.cls = "DONE" THEN DONE_forward_model(self, data, is_train, w)
    ELSE CoLA_forward_model(self, data, is_train, w)

(***************************************************************************)
(* The inherited training loop DeepDetector.fit (not in the two files),    *)
(* as far as it reads and writes what the hooks and decision_function      *)
(* read and write: the sizes, the model, decision_score_ and emb.  It is   *)
(* a process: its positions are the calls of forward_model.                *)
(***************************************************************************)
\* fit, up to the call of init_model: the sizes are taken from data.x and a
\* batch_size of 0 becomes the number of nodes
fit_enter(self, data) ==
    [self EXCEPT !.num_nodes = Some(data.n), !.in_dim = Some(data.in_dim),
                 !.batch_size = IF @ = 0 THEN data.n ELSE @]

\* fit, after a forward_model call: the embeddings of the seed nodes are
\* copied from the network when save_emb, and decision_score_ takes the score
\* at the seed ids
fit_update(self, data, score, h) ==
    LET idx == Take(data.n_id, data.batch_size)
        B == data.batch_size
        emb == IF ~self.save_emb THEN self.emb
               ELSE IF self.cls = "DONE"
               THEN Some(<<IndexPut(self.emb[1][1], idx, Take(h[1], B)),
                           IndexPut(self.emb[1][2], idx, Take(h[2], B))>>)
               ELSE Some(IndexPut(self.emb[1], idx, Take(h, B)))
    IN [self EXCEPT !.emb = emb,
                    !.decision_score_ = Some(IndexPut(@[1], idx, score))]

\* fit, from its entry to its first forward_model call, on the detector: the
\* sizes are taken, init_model builds the model, which is stored, and
\* decision_score_ is zeroed
fit_start(self, data) ==
    LET r == init_model(fit_enter(self, data))
    IN [r.self EXCEPT !.model = Some(r.ret),
                      !.decision_score_ = Some(Zeros(data.n))]

\* what the history keeps of a forward_model call that returned
LogEntry(data, w) ==
    [n_id |-> data.n_id, batch_size |-> data.batch_size,
     active_mask |-> data.active_mask, w |-> w]

\* a public method runs fit(data) up to its first forward_model call: the
\* graph is processed, the sizes are taken, init_model builds the model (with
\* parameters w0), decision_score_ is zeroed and the first batch is drawn
EnterFit(method, data, w0) ==
    LET g == process_graph(det, data)
    IN /\ det' = fit_start(det, data)
       /\ network' = [w |-> w0, emb |-> None]
       /\ frame' = Some([method |-> method, data |-> g, epoch |-> 1, k |-> 1])
       /\ batch' = Some(Loader(g, det'.num_neigh, det'.batch_size, 1))
       /\ again' = (fitted /\ arg = Some(data))
       /\ pc' = "forward"
       /\ log' = Some(<<>>)
       /\ directs' = 0
       /\ is_train_arg' = TRUE
       /\ ret' = None
       /\ exc' = FALSE
       /\ fitted' = FALSE
       /\ UNCHANGED twin

\* detector.fit(data)
Fit(data) ==
    /\ pc = "idle"
    /\ \E w0 \in Weights : EnterFit("fit", data, w0)
    /\ op' = "fit"
    /\ arg' = Some(data)
    /\ warned' = FALSE

\* fit calls self.forward_model(sampled_data); an exception leaves fit and
\* the method that called it
Forward ==
    /\ pc = "forward"
    /\ LET r == forward_model(det, batch[1], TRUE, network.w)
       IN /\ det' = r.self
          /\ network' = [network EXCEPT !.emb = r.model_emb]
          /\ ret' = r.ret
          /\ exc' = r.raised
          /\ IF r.raised
             THEN /\ pc' = "idle"
                  /\ frame' = None
                  /\ UNCHANGED log
             ELSE /\ pc' = "update"
                  /\ log' = Some(Append(log[1], LogEntry(batch[1], network.w)))
                  /\ UNCHANGED frame
    /\ op' = "forward_model"
    /\ is_train_arg' = TRUE
    /\ warned' = FALSE
    /\ UNCHANGED <<twin, batch, arg, fitted, directs, again>>

\* fit books the batch's score and embeddings, steps the optimizer and moves
\* to the next batch, the next epoch, or the end of the loop
FitUpdate ==
    /\ pc = "update"
    /\ det' = fit_update(det, batch[1], ret[1].score, network.emb[1])
    /\ network' = [network EXCEPT !.w = OptimizerStep(@)]
    /\ LET f == frame[1]
           K == NumBatches(f.data.n, det.batch_size)
       IN IF f.k < K
          THEN /\ frame' = Some([f EXCEPT !.k = f.k + 1])
               /\ batch' = Some(Loader(f.data, det.num_neigh, det.batch_size, f.k + 1))
               /\ pc' = "forward"
          ELSE IF f.epoch < det.epoch
          THEN /\ frame' = Some([f EXCEPT !.epoch = f.epoch + 1, !.k = 1])
               /\ batch' = Some(Loader(f.data, det.num_neigh, det.batch_size, 1))
               /\ pc' = "forward"
          ELSE /\ frame' = frame
               /\ batch' = None
               /\ pc' = "fit_end"
    /\ op' = "fit"
    /\ ret' = None
    /\ warned' = FALSE
    /\ exc' = FALSE
    /\ UNCHANGED <<twin, arg, log, fitted, directs, is_train_arg, again>>

\* fit returns: to its caller, or into DONE.decision_function
FitEnd ==
    /\ pc = "fit_end"
    /\ fitted' = TRUE
    /\ pc' = IF frame[1].method = "fit" THEN "idle" ELSE "df_return"
    /\ frame' = IF frame[1].method = "fit" THEN None ELSE frame
    /\ op' = "fit"
    /\ ret' = None
    /\ warned' = FALSE
    /\ exc' = FALSE
    /\ UNCHANGED <<det, twin, batch, arg, network, log, directs, is_train_arg, again>>

\* a caller runs detector.forward_model(batch, is_train) on a batch the
\* sampler draws from the graph the detector was last given
ForwardDirect ==
    /\ pc = "idle"
    /\ det.model # None
    /\ arg # None
    /\ directs < MaxDirect
    /\ \E t \in BOOLEAN, k \in 1..NumBatches(arg[1].n, det.batch_size) :
          LET b == Loader(process_graph(det, arg[1]), det.num_neigh, det.batch_size, k)
              r == forward_model(det, b, t, network.w)
          IN /\ batch' = Some(b)
             /\ is_train_arg' = t
             /\ det' = r.self
             /\ network' = [network EXCEPT !.emb = r.model_emb]
             /\ ret' = r.ret
             /\ exc' = r.raised
             /\ log' = IF r.raised THEN log
                       ELSE Some(Append(log[1], LogEntry(b, network.w)))
    /\ directs' = directs + 1
    /\ op' = "forward_model"
    /\ warned' = FALSE
    /\ UNCHANGED <<twin, pc, frame, arg, fitted, again>>

(***************************************************************************)
(* DONE.decision_function.                                                 *)
(***************************************************************************)
\* decision_function returns at once: nothing but the result is touched
ReturnScore ==
    /\ ret' = det.decision_score_
    /\ exc' = FALSE
    /\ fitted' = FALSE
    /\ UNCHANGED <<det, twin, pc, frame, batch, network, log, directs, is_train_arg, again>>

\* DONE_decision_function with a fault: a detector that has scores is not
\* trained again
DONE_decision_function_once(data) ==
    /\ pc = "idle"
    /\ det.cls = "DONE"
    /\ op' = "decision_function"
    /\ arg' = data
    /\ IF data # None /\ det.decision_score_ = None
       THEN /\ warned' = TRUE
            /\ \E w0 \in Weights : EnterFit("decision_function", data[1], w0)
       ELSE /\ warned' = FALSE
            /\ ReturnScore

\* DONE_decision_function with a fault: the warning is emitted for every call
DONE_decision_function_warn(data) ==
    /\ pc = "idle"
    /\ det.cls = "DONE"
    /\ op' = "decision_function"
    /\ arg' = data
    /\ warned' = TRUE
    /\ IF data # None
       THEN \E w0 \in Weights : EnterFit("decision_function", data[1], w0)
       ELSE ReturnScore

\* detector.decision_function(data): with data, warn and run fit(data, label)
\* before the return; without, return decision_score_ at once
DONE_decision_function(data) ==
    /\ pc = "idle"
    /\ det.cls = "DONE"
    /\ op' = "decision_function"
    /\ arg' = data
    /\ IF data # None
       THEN /\ warned' = TRUE
            /\ \E w0 \in Weights : EnterFit("decision_function", data[1], w0)
       ELSE /\ warned' = FALSE
            /\ ReturnScore

\* decision_function returns self.decision_score_ after fit has returned
DecisionFunctionReturn ==
    /\ pc = "df_return"
    /\ ret' = det.decision_score_
    /\ pc' = "idle"
    /\ frame' = None
    /\ op' = "decision_function"
    /\ warned' = FALSE
    /\ exc' = FALSE
    /\ UNCHANGED <<det, twin, batch, arg, network, log, fitted, directs, is_train_arg, again>>

(***************************************************************************)
(* The detector's life.                                                    *)
(***************************************************************************)
\* the constructor arguments tried: the defaults with these keywords varied
Args(cls, ep, bs, se) ==
    IF cls = "DONE"
    THEN [DONE_defaults EXCEPT !.hid_dim = 2, !.epoch = ep,
                               !.batch_size = bs, !.save_emb = se]
    ELSE [CoLA_defaults EXCEPT !.hid_dim = 2, !.epoch = ep,
                               !.batch_size = bs, !.save_emb = se]

Construct(a, cls) == IF cls = "DONE" THEN DONE_init(a) ELSE CoLA_init(a)

Init ==
    \E cls \in {"CoLA", "DONE"}, ep \in 1..MaxEpoch, bs \in 0..MaxBatch,
       se \in BOOLEAN :
        LET c == Construct(Args(cls, ep, bs, se), cls)
        IN /\ det = c.self
           /\ warned = c.warned
           /\ twin = None
           /\ pc = "idle"
           /\ frame = None
           /\ batch = None
           /\ ret = None
           /\ op = "__init__"
           /\ arg = None
           /\ exc = FALSE
           /\ network = [w |-> 0, emb |-> None]
           /\ log = None
           /\ fitted = FALSE
           /\ again = FALSE
           /\ directs = 0
           /\ is_train_arg = TRUE

Next ==
    \/ \E g \in Graphs : Fit(g)
    \/ Forward
    \/ FitUpdate
    \/ FitEnd
    \/ ForwardDirect
    \/ \E d \in {None} \cup {Some(g) : g \in Graphs} : DONE_decision_function(d)
    \/ DecisionFunctionReturn

Spec == Init /\ [][Next]_vars

(***************************************************************************)
(* Two DONE detectors built from the same arguments but for backbone, and  *)
(* taken through fit up to init_model on the same graph.                   *)
(***************************************************************************)
Backbones == {Some("GCN"), Some("MLP")}

\* the constructor arguments tried for the pair, backbone left at None
PairArgs ==
    {[DONE_defaults EXCEPT !.hid_dim = hid, !.num_layers = nl, !.w1 = w,
                           !.save_emb = se, !.batch_size = bs] :
        hid \in {2, 64}, nl \in {2, 4}, w \in {"0.2", "0.5"}, se \in BOOLEAN,
        bs \in 0..MaxBatch}

InitPair ==
    \E a \in PairArgs, bb \in Backbones :
        LET c == DONE_init(a)
        IN /\ det = c.self
           /\ warned = c.warned
           /\ twin = Some(DONE_init([a EXCEPT !.backbone = bb]))
           /\ pc = "idle"
           /\ frame = None
           /\ batch = None
           /\ ret = None
           /\ op = "__init__"
           /\ arg = None
           /\ exc = FALSE
           /\ network = [w |-> 0, emb |-> None]
           /\ log = None
           /\ fitted = FALSE
           /\ again = FALSE
           /\ directs = 0
           /\ is_train_arg = TRUE

\* both detectors enter fit(data) and build their model
PairFit(data) ==
    /\ det' = fit_start(det, data)
    /\ twin' = Some([twin[1] EXCEPT !.self = fit_start(@, data)])
    /\ op' = "fit"
    /\ arg' = Some(data)
    /\ UNCHANGED <<pc, frame, batch, ret, warned, exc, network, is_train_arg,
                   log, fitted, again, directs>>

NextPair == \E g \in Graphs : PairFit(g)

SpecBackbone == InitPair /\ [][NextPair]_vars

(***************************************************************************)
(* What the history says the arrays must hold.                             *)
(***************************************************************************)
\* the global ids of the seed nodes of a logged call
EntrySeeds(e) == SubSeq(e.n_id, 1, e.batch_size)

\* the rows a logged call had scored: every seed row, or those the mask picks
EntryRows(e) ==
    LET all == [j \in 1..e.batch_size |-> j]
    IN IF e.active_mask = None THEN all
       ELSE SelectSeq(all, LAMBDA j : e.active_mask[1][j])

\* the last logged call in which node v was a seed; 0 when there is none
LastSeeded(lg, v) ==
    LET S == {i \in 1..Len(lg) : \E j \in 1..lg[i].batch_size : lg[i].n_id[j] = v}
    IN IF S = {} THEN 0 ELSE CHOOSE i \in S : \A k \in S : k <= i

\* the seed position of node v in a logged call
SeedPos(e, v) == CHOOSE j \in 1..e.batch_size : e.n_id[j] = v

\* the row whose scores a logged call left at node v: the node's own row, or
\* the single scored row when one value was broadcast
RowAt(e, v) ==
    IF Len(EntryRows(e)) = 1 THEN EntryRows(e)[1] ELSE EntryRows(e)[SeedPos(e, v)]

Unmasked(lg) == \A i \in 1..Len(lg) : lg[i].active_mask = None

(***************************************************************************)
(* The claims.                                                             *)
(***************************************************************************)
\* C1: whenever DONE.decision_function(data) with data not None has returned,
\* a whole fit on that data ran inside the call (every batch of every epoch
\* went through forward_model after a fresh init_model), and the value
\* returned is decision_score_ as that fit left it: for every node the mean
\* of the three scores of the last call of this fit that seeded the node.
C1_RefitBeforeReturn ==
    (pc = "idle" /\ op = "decision_function" /\ arg # None) =>
        /\ fitted
        /\ log # None
        /\ det.num_nodes = Some(arg[1].n)
        /\ Len(log[1]) = det.epoch * NumBatches(arg[1].n, det.batch_size)
        /\ ret # None
        /\ ret = det.decision_score_
        /\ Len(ret[1]) = arg[1].n
        /\ \A v \in 1..arg[1].n :
              LET i == LastSeeded(log[1], v)
                  e == log[1][i]
                  r == RowAt(e, v)
              IN /\ i > 0
                 /\ 3 * ret[1][v] = Oa(e.w, r) + Os(e.w, r) + Oc(e.w, r)

\* C1 witness: decision_function(data) has returned non-zero scores on the
\* very graph the detector had just been fitted on.
C1_Witness ==
    /\ pc = "idle" /\ op = "decision_function" /\ arg # None
    /\ again
    /\ det.epoch > 1
    /\ \E v \in 1..Len(ret[1]) : ret[1][v] > 1

\* C2: a step that is DONE.decision_function(None) returns the stored
\* decision_score_, emits no warning, starts no fit and leaves every
\* attribute of the detector (the three score arrays, emb, decision_score_
\* among them) and the network as they were.
C2_NoneReturnsStored ==
    [][(pc = "idle" /\ op' = "decision_function" /\ arg' = None) =>
          /\ ret' = det.decision_score_
          /\ det' = det
          /\ network' = network
          /\ pc' = "idle"
          /\ ~warned'
          /\ ~exc']_vars

\* C2 witness: decision_function(None) has returned the scores of a fitted
\* DONE detector.
C2_Witness ==
    /\ pc = "idle" /\ op = "decision_function" /\ arg = None
    /\ ret # None
    /\ ret = det.decision_score_
    /\ det.attribute_score_ # None
    /\ \E v \in 1..Len(ret[1]) : ret[1][v] > 0

\* C3: after DONE.forward_model has returned, the score has one entry per
\* row the loss function scored, and for the k-th scored row, of node v, that
\* entry is a third of the sum of the entries of v in attribute_score_,
\* structural_score_ and combined_score_, which are that row's oa, os, oc.
C3_ScoreIsMeanOfStored ==
    (op = "forward_model" /\ ~exc /\ det.cls = "DONE") =>
        LET e == log[1][Len(log[1])]
            rows == EntryRows(e)
            score == ret[1].score
        IN /\ Len(score) = Len(rows)
           /\ \A k \in 1..Len(rows) :
                 LET v == e.n_id[rows[k]]
                     a == det.attribute_score_[1][v]
                     b == det.structural_score_[1][v]
                     c == det.combined_score_[1][v]
                 IN /\ a = Oa(e.w, rows[k])
                    /\ b = Os(e.w, rows[k])
                    /\ c = Oc(e.w, rows[k])
                    /\ 3 * score[k] = a + b + c

\* C3 witness: DONE.forward_model has returned the scores of two seed nodes.
C3_Witness ==
    /\ op = "forward_model" /\ ~exc /\ det.cls = "DONE"
    /\ Len(ret[1].score) = 2
    /\ ret[1].score[1] # ret[1].score[2]

\* C4: a DONE.forward_model call on a batch without active_mask that returns
\* leaves, in each of the three arrays, the batch's score at the global id of
\* every seed node and the old value at every other id, sampled neighbours
\* included.
C4_OnlySeedsOverwritten ==
    [][(op' = "forward_model" /\ ~exc' /\ det.cls = "DONE"
            /\ batch'[1].active_mask = None) =>
          LET b == batch'[1]
              w == network.w
          IN \A v \in 1..det.num_nodes[1] :
                IF \E j \in 1..b.batch_size : b.n_id[j] = v
                THEN LET j == CHOOSE j \in 1..b.batch_size : b.n_id[j] = v
                     IN /\ det'.attribute_score_[1][v] = Oa(w, j)
                        /\ det'.structural_score_[1][v] = Os(w, j)
                        /\ det'.combined_score_[1][v] = Oc(w, j)
                ELSE /\ det'.attribute_score_[1][v] = det.attribute_score_[1][v]
                     /\ det'.structural_score_[1][v] = det.structural_score_[1][v]
                     /\ det'.combined_score_[1][v] = det.combined_score_[1][v]]_vars

\* C4 witness: DONE.forward_model has returned on a batch that holds a
\* sampled neighbour besides its seeds, and the neighbour's entry is the
\* non-zero score an earlier batch had left there.
C4_Witness ==
    /\ op = "forward_model" /\ ~exc /\ det.cls = "DONE"
    /\ batch[1].active_mask = None
    /\ Len(batch[1].n_id) > batch[1].batch_size
    /\ det.structural_score_[1][batch[1].n_id[batch[1].batch_size + 1]] # 0

\* C5: two DONE detectors built from the same arguments but for backbone hold
\* the same attributes, before and after init_model, and build DONEBase from
\* the same arguments; only the one given a backbone warned.
C5_BackboneIgnored ==
    twin # None =>
        /\ det = twin[1].self
        /\ det.backbone = None
        /\ det.model = twin[1].self.model
        /\ ~warned
        /\ twin[1].warned

\* C5 witness: both detectors have built their model.
C5_Witness ==
    /\ twin # None
    /\ det.model # None
    /\ twin[1].self.model # None
    /\ det.num_layers = 2

\* C6: emb is None while save_emb is False; a step that runs init_model sets
\* emb to zeros of shape num_nodes x hid_dim (CoLA: one matrix, DONE: a pair)
\* when save_emb and leaves it alone otherwise; a step that runs
\* forward_model while save_emb is False leaves emb alone.
C6_EmbOnlyWhenSaveEmb ==
    [][/\ ~det'.save_emb => det'.emb = None
       /\ (pc = "idle" /\ pc' = "forward") =>
             LET z == Zeros2(det'.num_nodes[1], det'.hid_dim)
             IN IF det.save_emb
                THEN det'.emb = Some(IF det.cls = "DONE" THEN <<z, z>> ELSE z)
                ELSE det'.emb = det.emb
       /\ (op' = "forward_model" /\ ~det.save_emb) => det'.emb = det.emb]_vars

\* C6 witness: init_model has replaced the embeddings of an earlier fit of a
\* DONE detector with save_emb by a pair of zero matrices.
C6_Witness ==
    /\ pc = "forward" /\ frame[1].epoch = 1 /\ frame[1].k = 1
    /\ det.cls = "DONE" /\ det.save_emb
    /\ again
    /\ det.emb = Some(<<Zeros2(det.num_nodes[1], det.hid_dim),
                        Zeros2(det.num_nodes[1], det.hid_dim)>>)

\* C7: a step that is CoLA.forward_model returns a score of batch_size
\* entries, the i-th being neg_logits[i] - pos_logits[i], hands the loss
\* 2 * batch_size logits and labels, the positive logits first with label 1
\* and the negative ones after them with label 0, and leaves every attribute
\* of the detector as it was.
C7_CoLAForward ==
    [][(op' = "forward_model" /\ det.cls = "CoLA") =>
          LET B == batch'[1].batch_size
              w == network.w
              score == ret'[1].score
              logits == ret'[1].loss.logits
              labels == ret'[1].loss.con_label
          IN /\ ~exc'
             /\ det' = det
             /\ Len(score) = B
             /\ Len(logits) = 2 * B
             /\ Len(labels) = 2 * B
             /\ \A i \in 1..B :
                   /\ score[i] = Neg(w, i) - Pos(w, i)
                   /\ logits[i] = Pos(w, i) /\ labels[i] = 1
                   /\ logits[B + i] = Neg(w, i) /\ labels[B + i] = 0]_vars

\* C7 witness: CoLA.forward_model has returned on a batch of two seeds.
C7_Witness ==
    /\ op = "forward_model" /\ det.cls = "CoLA" /\ ~exc
    /\ batch[1].batch_size = 2
    /\ Len(ret[1].score) = 2

\* C8: the three arrays of a DONE detector are None until init_model has run;
\* from then on they have num_nodes entries, and as long as every
\* forward_model call since init_model was on a batch without active_mask,
\* the entry of node v is the score of v in the last call that seeded v, or 0
\* when no call has.
C8_LastWriterWins ==
    det.cls = "DONE" =>
        IF log = None
        THEN /\ det.attribute_score_ = None
             /\ det.structural_score_ = None
             /\ det.combined_score_ = None
        ELSE /\ Len(det.attribute_score_[1]) = det.num_nodes[1]
             /\ Len(det.structural_score_[1]) = det.num_nodes[1]
             /\ Len(det.combined_score_[1]) = det.num_nodes[1]
             /\ Unmasked(log[1]) =>
                   \A v \in 1..det.num_nodes[1] :
                      LET i == LastSeeded(log[1], v)
                          e == log[1][i]
                          j == SeedPos(e, v)
                      IN /\ det.attribute_score_[1][v] = IF i = 0 THEN 0 ELSE Oa(e.w, j)
                         /\ det.structural_score_[1][v] = IF i = 0 THEN 0 ELSE Os(e.w, j)
                         /\ det.combined_score_[1][v] = IF i = 0 THEN 0 ELSE Oc(e.w, j)

\* C8 witness: a forward_model call with is_train False, made after fit, has
\* overwritten with a smaller score what an earlier call had written for one
\* of its seeds, while another node keeps what fit left.
C8_Witness ==
    /\ det.cls = "DONE" /\ op = "forward_model" /\ ~exc /\ ~is_train_arg
    /\ log # None /\ Unmasked(log[1]) /\ Len(log[1]) >= 3
    /\ LET lg == log[1]
           e == lg[Len(lg)]
       IN /\ \E v \in 1..det.num_nodes[1] :
                /\ LastSeeded(lg, v) = Len(lg)
                /\ \E i \in 1..(Len(lg) - 1) :
                      /\ \E j \in 1..lg[i].batch_size : lg[i].n_id[j] = v
                      /\ Os(lg[i].w, SeedPos(lg[i], v)) > Os(e.w, SeedPos(e, v))
          /\ \E v \in 1..det.num_nodes[1] :
                LastSeeded(lg, v) \in 1..(Len(lg) - 1)

=============================================================================
